---- MODULE Spec2Model ----
(***************************************************************************)
(* Hidden Day planner backend: the POST /plan aggregation pipeline of      *)
(* backend/main.py with the helpers of backend/utils.py.                   *)
(*                                                                         *)
(* Instants are whole seconds.  A datetime is [day, sec]: day is the       *)
(* proleptic Gregorian ordinal (date.toordinal()), sec the second of the   *)
(* day.  Coordinates are integers in units of 1e-5 degree.                 *)
(***************************************************************************)
EXTENDS Integers, Sequences, FiniteSets, TLC

VARIABLES
    env,        \* module globals read from the environment (main.py:43-46)
    cache,      \* cache._store of the process-wide TTLCache (main.py:53)
    now,        \* time.time()
    pc,         \* per request: position of create_plan
    req,        \* per request: the PlanRequest body
    hit,        \* per request: whether the cache lookup of line 93 hit
    geo,        \* per request: state of the geocode coroutine
    center,     \* per request: the center run_with_timeout handed back
    calls,      \* per request and provider: state of the adapter coroutine
    results,    \* per request and provider: what run_with_timeout returned
    outcome,    \* per request: the HTTP response sent
    gathered,   \* per request: what its gather collected ("items" or "empty")
    wrote,      \* per request: cache.set was executed by this request
    before,     \* per request: the requests already answered when it started
    fnIn,       \* pure-function harness: the call's arguments
    fnOut,      \* pure-function harness: the call's result
    TM_CACHE,   \* _TM_CACHE of providers/ticketmaster.py
    tmcall,     \* per fetch_ticketmaster call: its position and locals
    tmclock     \* time.time() in tenths of a second, as that module reads it

vars == <<env, cache, now, pc, req, hit, geo, center, calls, results, outcome,
          gathered, wrote, before, fnIn, fnOut, TM_CACHE, tmcall, tmclock>>

tmVars == <<TM_CACHE, tmcall, tmclock>>

-----------------------------------------------------------------------------
(* Bounds of the model *)

\* number of clock advances explored
MaxTicks == 1

\* seconds per clock advance
TickSeconds == 400

\* resolution of random.random() in rank: values u / JitterSteps, u in 0..JitterSteps-1
JitterSteps == 2

\* days after FirstDay that the time-window harness draws dates from
DaySpan == 7

\* longest list of items handed to dedupe and to rank
MaxLen == 3

\* largest limit handed to rank
MaxLimit == 4

\* largest budget handed to the price-band mapping
MaxBudget == 130

\* most records in one upstream payload
MaxRecords == 2

\* tenths of a second per advance of the ticketmaster clock
TickTenths == 110

\* number of advances of the ticketmaster clock explored
MaxTMTicks == 3

\* seconds per clock advance between the operations on a TTLCache
CacheTickSeconds == 300

\* number of clock advances between the operations on a TTLCache
MaxCacheTicks == 5

-----------------------------------------------------------------------------
(* Program constants *)

PROVIDER_TIMEOUT_S == 12

GEOCODE_TIMEOUT_S == 10

ttl_seconds == 600

RankLimit == 12

\* date(2025, 10, 20).toordinal(), a Monday
FirstDay == 739544

\* Python's None
None == [none |-> TRUE]

\* the source of a PlanItem built without one (Optional[Literal[...]] = None)
NoSource == "None"

Requests == {"r1", "r2"}

Providers == <<"yelp", "ticketmaster", "eventbrite">>

ProviderSet == {Providers[i] : i \in 1..Len(Providers)}

Range(s) == {s[i] : i \in 1..Len(s)}

-----------------------------------------------------------------------------
(* models.py *)

PlanItem(title, lat, lon, source) ==
    [title |-> title, lat |-> lat, lon |-> lon, source |-> source]

PlanRequest(date, location, timeframe, rangeStart, rangeEnd) ==
    [date |-> date, budget |-> "50", interests |-> "jazz", location |-> location,
     timeframe |-> timeframe, useOpenNow |-> FALSE,
     rangeStart |-> rangeStart, rangeEnd |-> rangeEnd]

\* center is the geocoded pair, written [lat, lon]
PlanResponse(r, c, items) ==
    [date |-> r.date, budget |-> r.budget, interests |-> r.interests,
     location |-> r.location, center |-> [lat |-> c.lat, lng |-> c.lon],
     items |-> items]

\* What a Python call does: it returns a value or raises an exception
Returned(v) == [raised |-> FALSE, value |-> v]

Raised(e) == [raised |-> TRUE, error |-> e]

-----------------------------------------------------------------------------
(* utils.py: build_window *)

\* A str that is an ISO-8601 text, written by the date and time it spells
Iso(day, sec) == [iso |-> <<day, sec>>]

\* Any other str; Text("") is the empty string
Text(t) == [text |-> t]

\* datetime.fromisoformat: the parsed datetime, or ValueError
fromisoformat(s) ==
    IF DOMAIN s = {"iso"}
    THEN Returned([day |-> s.iso[1], sec |-> s.iso[2]])
    ELSE Raised("ValueError")

\* Python truthiness of an Optional[str]
Truthy(s) == s # None /\ s # Text("")

\* a weekday numbered from Sunday = 0
weekday_from_sunday(dt) == dt.day % 7

\* datetime.weekday(): Mon=0..Sun=6
weekday(dt) == (dt.day + 6) % 7

DayStart(dt) == [day |-> dt.day, sec |-> 0]

DayEnd(dt) == [day |-> dt.day, sec |-> 86399]

PlusDays(dt, n) == [day |-> dt.day + n, sec |-> dt.sec]

build_window(date_iso, timeframe, range_start, range_end) ==
    IF timeframe = "custom" /\ Truthy(range_start) /\ Truthy(range_end)
    THEN LET a == fromisoformat(range_start)
             b == fromisoformat(range_end)
         IN  IF a.raised THEN a
             ELSE IF b.raised THEN b
             ELSE Returned(<<a.value, b.value>>)
    ELSE LET p == fromisoformat(date_iso)
         IN  IF p.raised THEN p
             ELSE LET base == p.value
                      day_start == DayStart(base)
                      day_end == DayEnd(base)
                  IN  IF timeframe = "day"
                      THEN Returned(<<day_start, day_end>>)
                      ELSE IF timeframe = "weekend"
                      THEN LET days_to_sat == (5 - weekday(base)) % 7
                               sat == DayStart(PlusDays(base, days_to_sat))
                               sun_end == DayEnd(PlusDays(sat, 1))
                           IN  Returned(<<sat, sun_end>>)
                      ELSE LET dow == weekday(base)
                               monday == DayStart(PlusDays(base, 0 - ((dow + 7 - 0) % 7)))
                               sunday_end == DayEnd(PlusDays(monday, 6))
                           IN  Returned(<<monday, sunday_end>>)

-----------------------------------------------------------------------------
(* utils.py: dedupe and rank *)

\* str.lower on the titles of the model
lower(t) ==
    CASE t = "Jazz Night" -> "jazz night"
      [] t = "JAZZ NIGHT" -> "jazz night"
      [] OTHER -> t

Abs(x) == IF x < 0 THEN 0 - x ELSE x

\* format(x, ".4f") of x * 1e-5: the sign of the float, then its magnitude
\* rounded to 4 decimals (in units of 1e-4)
Fmt4(x) == [neg |-> x < 0, mag |-> (Abs(x) + 5) \div 10]

DedupeKey(it) == <<lower(it.title), Fmt4(it.lat), Fmt4(it.lon)>>

RECURSIVE DedupeFrom(_, _, _)
DedupeFrom(items, seen, out) ==
    IF items = <<>> THEN out
    ELSE LET it == Head(items)
             k == DedupeKey(it)
         IN  IF k \notin seen
             THEN DedupeFrom(Tail(items), seen \cup {k}, Append(out, it))
             ELSE DedupeFrom(Tail(items), seen, out)

dedupe(items) == DedupeFrom(items, {}, <<>>)

\* weight.get(it.source or "fallback", 1)
weight(source) ==
    CASE source = "event" -> 4
      [] source = "eventbrite" -> 4
      [] source = "google" -> 3
      [] source = "yelp" -> 2
      [] OTHER -> 1

\* the score with a jitter of random.random() * 3, in units of 1 / JitterSteps
Score_wide_jitter(it, u) == weight(it.source) * JitterSteps + 3 * u

\* weight + random.random() * 0.01 in units of 0.01 / JitterSteps, the draw
\* being u / JitterSteps
Score(it, u) == weight(it.source) * 100 * JitterSteps + u

\* list.sort(key=..., reverse=True) is stable: x goes behind every element
\* whose score is at least its own
RECURSIVE InsertDesc(_, _)
InsertDesc(sorted, x) ==
    IF sorted = <<>> THEN <<x>>
    ELSE IF Head(sorted).score >= x.score
         THEN <<Head(sorted)>> \o InsertDesc(Tail(sorted), x)
         ELSE <<x>> \o sorted

RECURSIVE SortDesc(_)
SortDesc(scored) ==
    IF scored = <<>> THEN <<>>
    ELSE InsertDesc(SortDesc(SubSeq(scored, 1, Len(scored) - 1)), scored[Len(scored)])

Min(a, b) == IF a < b THEN a ELSE b

Max(a, b) == IF a > b THEN a ELSE b

\* xs[:limit]
Slice(xs, limit) ==
    IF limit >= 0 THEN SubSeq(xs, 1, Min(limit, Len(xs)))
    ELSE SubSeq(xs, 1, Max(Len(xs) + limit, 0))

\* draws[i] is the value random.random() takes for items[i]
rank(items, limit, draws) ==
    LET scored == [i \in 1..Len(items) |->
                      [it |-> items[i], score |-> Score(items[i], draws[i])]]
        sorted == SortDesc(scored)
    IN  Slice([i \in 1..Len(sorted) |-> sorted[i].it], limit)

-----------------------------------------------------------------------------
(* utils.py: TTLCache.  store is _store, a function from the keys held to
   their CacheEntry *)

CacheEntry(expires, data) == [expires |-> expires, data |-> data]

Without(store, key) == [k \in DOMAIN store \ {key} |-> store[k]]

\* get that answers None for an expired entry and leaves it in the store
TTLCache_get_keeps_expired(store, key, t) ==
    IF key \in DOMAIN store /\ store[key].expires >= t
    THEN [store |-> store, value |-> store[key].data]
    ELSE [store |-> store, value |-> None]

\* get returns the value and may pop the entry: [store, value]
TTLCache_get(store, key, t) ==
    IF key \notin DOMAIN store
    THEN [store |-> store, value |-> None]
    ELSE IF store[key].expires < t
         THEN [store |-> Without(store, key), value |-> None]
         ELSE [store |-> store, value |-> store[key].data]

TTLCache_set(store, key, value, t) ==
    [k \in DOMAIN store \cup {key} |->
        IF k = key THEN CacheEntry(t + ttl_seconds, value) ELSE store[k]]

-----------------------------------------------------------------------------
(* main.py: run_with_timeout *)

\* What the awaited operation does: it returns v, raises an Exception with
\* text e, or is still running when the deadline elapses
OpReturns(v) == [kind |-> "returns", value |-> v]

OpRaises(e) == [kind |-> "raises", text |-> e]

OpRunsOn == [kind |-> "runs on"]

\* f"{label} timed out after {seconds}s"
TimeoutMsg(label, seconds) == [label |-> label, timed_out_after |-> seconds]

\* f"{label} error: {e}"
ErrorMsg(label, e) == [label |-> label, error |-> e]

\* A Python list, kept apart from None and from a coordinate pair
List(xs) == [list |-> xs]

EmptyList == List(<<>>)

\* The await of run_with_timeout ends with a (items, err) pair, ends with an
\* exception, or never ends
Pair(items, err) == [state |-> "returned", items |-> items, err |-> err]

Propagates(e) == [state |-> "raised", error |-> e]

Blocked == [state |-> "blocked"]

\* run_with_timeout without its "except Exception" clause
run_with_timeout_reraise(op, seconds, label) ==
    IF op.kind = "returns" THEN Pair(op.value, None)
    ELSE IF op.kind = "runs on" THEN Pair(EmptyList, TimeoutMsg(label, seconds))
    ELSE Propagates(op.text)

\* run_with_timeout awaiting the operation itself, without asyncio.wait_for
run_with_timeout_no_deadline(op, seconds, label) ==
    IF op.kind = "returns" THEN Pair(op.value, None)
    ELSE IF op.kind = "runs on" THEN Blocked
    ELSE Pair(EmptyList, ErrorMsg(label, op.text))

run_with_timeout(op, seconds, label) ==
    IF op.kind = "returns" THEN Pair(op.value, None)
    ELSE IF op.kind = "runs on" THEN Pair(EmptyList, TimeoutMsg(label, seconds))
    ELSE Pair(EmptyList, ErrorMsg(label, op.text))

\* What asyncio.wait_for leaves of the awaited coroutine once it is over: on
\* the deadline it cancels the coroutine and waits for the cancellation
\* a wait that gives up on the deadline and leaves the coroutine running
wait_for_leaves_running(op) ==
    IF op.kind = "returns" THEN "returned"
    ELSE IF op.kind = "raises" THEN "raised"
    ELSE "pending"

wait_for_leaves(op) ==
    IF op.kind = "returns" THEN "returned"
    ELSE IF op.kind = "raises" THEN "raised"
    ELSE "cancelled"

-----------------------------------------------------------------------------
(* main.py: the responses of the app *)

NoOutcome == [status |-> 0]

\* a returned PlanResponse
Ok200(resp) == [status |-> 200, body |-> resp]

\* http_error_handler: HTTPException(status_code, detail)
HTTPException(status_code, detail) == [status |-> status_code, error |-> detail]

\* unhandled_error_handler: any other exception
ServerError == [status |-> 500, error |-> "Server error"]

-----------------------------------------------------------------------------
(* main.py: create_plan *)

\* json.dumps(req.model_dump() | {"EB_ENABLED": EB_ENABLED})
cache_key(body, e) == [body |-> body, EB_ENABLED |-> e.EB_ENABLED]

\* line 101 testing geo_err alone
GeocodeFailed_err_only(c, geo_err) == geo_err # None

\* line 101: geo_err or not center
GeocodeFailed(c, geo_err) == geo_err # None \/ c = None \/ c = EmptyList

\* lines 108-124 with line 120 reading "EB_ENABLED or EVENTBRITE_TOKEN"
labels_for_eb_or(e) ==
    (IF e.YELP_API_KEY THEN <<"yelp">> ELSE <<>>)
    \o (IF e.TICKETMASTER_API_KEY THEN <<"ticketmaster">> ELSE <<>>)
    \o (IF e.EB_ENABLED \/ e.EVENTBRITE_TOKEN THEN <<"eventbrite">> ELSE <<>>)

\* lines 108-124: the labels of the tasks appended, in order
labels_for(e) ==
    (IF e.YELP_API_KEY THEN <<"yelp">> ELSE <<>>)
    \o (IF e.TICKETMASTER_API_KEY THEN <<"ticketmaster">> ELSE <<>>)
    \o (IF e.EB_ENABLED /\ e.EVENTBRITE_TOKEN THEN <<"eventbrite">> ELSE <<>>)

\* line 139: the argument of log.info is evaluated before the call; for each
\* label the inner generator's first iterable [r] is evaluated in the enclosing
\* scope, where no r is bound
providers_log_line(labels) ==
    IF Len(labels) > 0 THEN Raised("NameError") ELSE Returned("")

RECURSIVE items_of(_)
items_of(res) ==
    IF res = <<>> THEN <<>>
    ELSE Head(res).items.list \o items_of(Tail(res))

RECURSIVE errors_of(_)
errors_of(res) ==
    IF res = <<>> THEN <<>>
    ELSE (IF Head(res).err # None THEN <<Head(res).err>> ELSE <<>>) \o errors_of(Tail(res))

NoResult == [state |-> "pending"]

Paris == [lat |-> 4885660, lon |-> 235220]

GeoOps == {OpReturns(Paris), OpReturns(None), OpRaises("KeyError")}

ItemLists(p) ==
    CASE p = "yelp" ->
           {<<>>, <<PlanItem("Museum", 4886000, 233700, "yelp"),
                    PlanItem("jazz night", 4885312, 234561, "yelp")>>}
      [] p = "ticketmaster" ->
           {<<>>, <<PlanItem("Jazz Night", 4885314, 234562, "event")>>}
      [] OTHER ->
           {<<>>, <<PlanItem("JAZZ NIGHT", 4885314, 234562, "eventbrite")>>}

ProviderOps(p) == {OpReturns(List(l)) : l \in ItemLists(p)} \cup {OpRaises("ConnectError")}

Bodies ==
    { PlanRequest(Iso(FirstDay, 0), "Paris", "day", None, None),
      PlanRequest(Text("tomorrow"), "Paris", "week", None, None) }

Envs ==
    [YELP_API_KEY : BOOLEAN, TICKETMASTER_API_KEY : BOOLEAN,
     EVENTBRITE_TOKEN : BOOLEAN, EB_ENABLED : BOOLEAN]

EmptyStore == [k \in {} |-> None]

\* the fetch_ticketmaster calls of the model
TMCalls == {"a", "b"}

\* a call that has not begun
TMNoCall ==
    [pc |-> "idle", key |-> <<>>, attempt |-> 0, backoff |-> 0, wake |-> 0,
     sent |-> 0, last |-> [status_code |-> 0], result |-> None,
     after |-> {}, during |-> {}]

TMIdle ==
    /\ TM_CACHE = [k \in {} |-> None]
    /\ tmcall = [c \in TMCalls |-> TMNoCall]
    /\ tmclock = 0

Init ==
    /\ TMIdle
    /\ env \in Envs
    /\ cache = EmptyStore
    /\ now = 0
    /\ pc = [r \in Requests |-> "idle"]
    /\ req = [r \in Requests |-> None]
    /\ hit = [r \in Requests |-> "none"]
    /\ geo = [r \in Requests |-> "none"]
    /\ center = [r \in Requests |-> None]
    /\ calls = [r \in Requests |-> [p \in ProviderSet |-> "none"]]
    /\ results = [r \in Requests |-> [p \in ProviderSet |-> NoResult]]
    /\ outcome = [r \in Requests |-> NoOutcome]
    /\ gathered = [r \in Requests |-> "none"]
    /\ wrote = [r \in Requests |-> FALSE]
    /\ before = [r \in Requests |-> {}]
    /\ fnIn = None
    /\ fnOut = None

\* lines 92-98: the cache lookup, and on a miss the geocode call is awaited
Start(r, body) ==
    /\ pc[r] = "idle"
    /\ LET got == TTLCache_get(cache, cache_key(body, env), now)
       IN  /\ cache' = got.store
           /\ IF got.value # None
              THEN /\ pc' = [pc EXCEPT ![r] = "done"]
                   /\ outcome' = [outcome EXCEPT ![r] = Ok200(got.value)]
                   /\ hit' = [hit EXCEPT ![r] = "hit"]
                   /\ geo' = geo
              ELSE /\ pc' = [pc EXCEPT ![r] = "geocode"]
                   /\ outcome' = outcome
                   /\ hit' = [hit EXCEPT ![r] = "miss"]
                   /\ geo' = [geo EXCEPT ![r] = "pending"]
    /\ req' = [req EXCEPT ![r] = body]
    /\ before' = [before EXCEPT ![r] = {q \in Requests : pc[q] = "done"}]
    /\ UNCHANGED <<env, now, center, calls, results, gathered, wrote, fnIn, fnOut, tmVars>>

\* lines 98-129: the geocode await is over with op; the handler runs on to the
\* gather, or ends the request
AfterGeocode(r, op) ==
    LET w == run_with_timeout(op, GEOCODE_TIMEOUT_S, "geocode")
        ends(o) == /\ pc' = [pc EXCEPT ![r] = "done"]
                   /\ outcome' = [outcome EXCEPT ![r] = o]
                   /\ calls' = calls
    IN  /\ pc[r] = "geocode"
        /\ w.state # "blocked"
        /\ geo' = [geo EXCEPT ![r] = wait_for_leaves(op)]
        /\ center' = [center EXCEPT ![r] = IF w.state = "returned" THEN w.items ELSE None]
        /\ IF w.state = "raised" THEN ends(ServerError)
           ELSE IF GeocodeFailed(w.items, w.err)
           THEN ends(HTTPException(400, "Geocoding failed or timed out"))
           ELSE IF build_window(req[r].date, req[r].timeframe,
                                req[r].rangeStart, req[r].rangeEnd).raised
           THEN ends(ServerError)
           ELSE IF labels_for(env) = <<>>
           THEN ends(HTTPException(500, "No providers configured"))
           ELSE /\ pc' = [pc EXCEPT ![r] = "gather"]
                /\ outcome' = outcome
                /\ calls' = [calls EXCEPT ![r] =
                                [p \in ProviderSet |->
                                    IF p \in Range(labels_for(env)) THEN "pending" ELSE "none"]]
        /\ UNCHANGED <<env, cache, now, req, hit, results, gathered, wrote, before,
                       fnIn, fnOut, tmVars>>

\* the geocode call returns or raises before the deadline
GeocodeEnds(r, op) == AfterGeocode(r, op)

\* the geocode deadline elapses first
GeocodeTimesOut(r) == AfterGeocode(r, OpRunsOn)

\* one gathered run_with_timeout(fetch_*, PROVIDER_TIMEOUT_S, label) is over
AfterProvider(r, p, op) ==
    LET w == run_with_timeout(op, PROVIDER_TIMEOUT_S, p)
    IN  /\ pc[r] = "gather"
        /\ calls[r][p] = "pending"
        /\ w.state # "blocked"
        /\ calls' = [calls EXCEPT ![r][p] = wait_for_leaves(op)]
        /\ IF w.state = "raised"
           THEN \* gather hands the first exception to the awaiting handler
                /\ pc' = [pc EXCEPT ![r] = "done"]
                /\ outcome' = [outcome EXCEPT ![r] = ServerError]
                /\ results' = results
           ELSE /\ results' = [results EXCEPT ![r][p] = w]
                /\ UNCHANGED <<pc, outcome>>
        /\ UNCHANGED <<env, cache, now, req, hit, geo, center, gathered, wrote, before,
                       fnIn, fnOut, tmVars>>

ProviderEnds(r, p, op) == AfterProvider(r, p, op)

ProviderTimesOut(r, p) == AfterProvider(r, p, OpRunsOn)

\* asyncio.gather is over when every task is
GatherDone(r) ==
    \A p \in ProviderSet : calls[r][p] # "none" => results[r][p] # NoResult

\* lines 131-161
Finish(r) ==
    LET labels == labels_for(env)
        res == [i \in 1..Len(labels) |-> results[r][labels[i]]]
        items_all == items_of(res)
        errors == errors_of(res)
        deduped == dedupe(items_all)
    IN  /\ pc[r] = "gather"
        /\ GatherDone(r)
        /\ pc' = [pc EXCEPT ![r] = "done"]
        /\ IF providers_log_line(labels).raised
           THEN /\ outcome' = [outcome EXCEPT ![r] = ServerError]
                /\ UNCHANGED <<cache, wrote>>
           ELSE \E draws \in [1..Len(deduped) -> 0..(JitterSteps - 1)] :
                  LET items == rank(deduped, RankLimit, draws)
                      resp == PlanResponse(req[r], center[r], items)
                  IN  /\ cache' = TTLCache_set(cache, cache_key(req[r], env), resp, now)
                      /\ wrote' = [wrote EXCEPT ![r] = TRUE]
                      /\ outcome' = [outcome EXCEPT ![r] =
                            IF items = <<>>
                            THEN HTTPException(500, IF errors # <<>> THEN errors[1]
                                                    ELSE "No results")
                            ELSE Ok200(resp)]
        \* the handler is over: its tasks and their results are gone
        /\ calls' = [calls EXCEPT ![r] = [p \in ProviderSet |-> "none"]]
        /\ results' = [results EXCEPT ![r] = [p \in ProviderSet |-> NoResult]]
        /\ gathered' = [gathered EXCEPT ![r] =
                            IF items_all # <<>> THEN "items" ELSE "empty"]
        /\ UNCHANGED <<env, now, req, hit, geo, center, before, fnIn, fnOut, tmVars>>

\* time passes
Tick ==
    /\ now < MaxTicks * TickSeconds
    /\ now' = now + TickSeconds
    /\ UNCHANGED <<env, cache, pc, req, hit, geo, center, calls, results, outcome,
                   gathered, wrote, before, fnIn, fnOut, tmVars>>

Next ==
    \/ \E r \in Requests, body \in Bodies : Start(r, body)
    \/ \E r \in Requests, op \in GeoOps : GeocodeEnds(r, op)
    \/ \E r \in Requests : GeocodeTimesOut(r)
    \/ \E r \in Requests, p \in ProviderSet : \E op \in ProviderOps(p) : ProviderEnds(r, p, op)
    \/ \E r \in Requests, p \in ProviderSet : ProviderTimesOut(r, p)
    \/ \E r \in Requests : Finish(r)
    \/ Tick

Spec == Init /\ [][Next]_vars

-----------------------------------------------------------------------------
(* Pure-function harness: the request pipeline stays idle, one function is
   applied to arguments drawn by the initial state *)

PlanIdle ==
    /\ TMIdle
    /\ env = [YELP_API_KEY |-> TRUE, TICKETMASTER_API_KEY |-> TRUE,
              EVENTBRITE_TOKEN |-> TRUE, EB_ENABLED |-> TRUE]
    /\ cache = EmptyStore
    /\ now = 0
    /\ pc = [r \in Requests |-> "idle"]
    /\ req = [r \in Requests |-> None]
    /\ hit = [r \in Requests |-> "none"]
    /\ geo = [r \in Requests |-> "none"]
    /\ center = [r \in Requests |-> None]
    /\ calls = [r \in Requests |-> [p \in ProviderSet |-> "none"]]
    /\ results = [r \in Requests |-> [p \in ProviderSet |-> NoResult]]
    /\ outcome = [r \in Requests |-> NoOutcome]
    /\ gathered = [r \in Requests |-> "none"]
    /\ wrote = [r \in Requests |-> FALSE]
    /\ before = [r \in Requests |-> {}]

planVars == <<env, cache, now, pc, req, hit, geo, center, calls, results, outcome,
              gathered, wrote, before>>

(* run_with_timeout applied to every kind of awaited operation *)

WrappedOps ==
    GeoOps \cup UNION {ProviderOps(p) : p \in ProviderSet}
    \cup {OpRaises("ReadTimeout"), OpRunsOn}

WrapLabels == {"geocode"} \cup ProviderSet

WrapInputs ==
    [op : WrappedOps, seconds : {GEOCODE_TIMEOUT_S, PROVIDER_TIMEOUT_S}, label : WrapLabels]

InitWrap ==
    /\ PlanIdle
    /\ fnIn \in WrapInputs
    /\ fnOut = None

ApplyWrap ==
    /\ fnOut = None
    /\ fnOut' = run_with_timeout(fnIn.op, fnIn.seconds, fnIn.label)
    /\ UNCHANGED <<planVars, fnIn, tmVars>>

SpecWrap == InitWrap /\ [][ApplyWrap]_vars

(* build_window applied to dates of every weekday *)

DateStrings ==
    {Iso(FirstDay + d, s) : d \in 0..(DaySpan - 1), s \in {0, 36000}}
    \cup {Text("tomorrow")}

RangeStrings == {None, Text(""), Iso(FirstDay + 1, 36000), Iso(FirstDay + 2, 79200)}

Timeframes == {"day", "weekend", "week", "custom"}

WindowInputs ==
    [date_iso : DateStrings, timeframe : Timeframes,
     range_start : RangeStrings, range_end : RangeStrings]

InitWindow ==
    /\ PlanIdle
    /\ fnIn \in WindowInputs
    /\ fnOut = None

ApplyWindow ==
    /\ fnOut = None
    /\ fnOut' = build_window(fnIn.date_iso, fnIn.timeframe, fnIn.range_start, fnIn.range_end)
    /\ UNCHANGED <<planVars, fnIn, tmVars>>

SpecWindow == InitWindow /\ [][ApplyWindow]_vars

-----------------------------------------------------------------------------
(* Claims about POST /plan *)

NoProviderEnabled ==
    /\ ~env.YELP_API_KEY
    /\ ~env.TICKETMASTER_API_KEY
    /\ ~(env.EB_ENABLED /\ env.EVENTBRITE_TOKEN)

NoProviderCall(r) == \A p \in ProviderSet : calls[r][p] = "none"

NoProvidersConfigured == HTTPException(500, "No providers configured")

GeocodingFailed == HTTPException(400, "Geocoding failed or timed out")

\* geocode handed back coordinates
Geocoded(r) == geo[r] = "returned" /\ center[r] # None

\* geocode returned not-found, raised or timed out
GeocodeFailure(r) ==
    \/ geo[r] \in {"raised", "cancelled"}
    \/ geo[r] = "returned" /\ center[r] = None

WindowBuilt(r) ==
    ~build_window(req[r].date, req[r].timeframe, req[r].rangeStart, req[r].rangeEnd).raised

Gathered(r) ==
    LET labels == labels_for(env)
    IN  [i \in 1..Len(labels) |-> results[r][labels[i]]]

\* this step is request r running lines 131-161 on the results of its gather
Finishes(r) == pc[r] = "gather" /\ GatherDone(r) /\ pc'[r] = "done"

SomeProviderHasItems(r) ==
    \E p \in ProviderSet :
        results[r][p] # NoResult /\ results[r][p].items # EmptyList

EveryProviderEmpty(r) ==
    \A p \in ProviderSet :
        calls[r][p] # "none" => results[r][p] # NoResult /\ results[r][p].items = EmptyList

IsRanked(items, merged) ==
    \E draws \in [1..Len(merged) -> 0..(JitterSteps - 1)] :
        items = rank(merged, RankLimit, draws)

\* C2 as stated: whenever at least one enabled provider returns a non-empty
\* list, the request succeeds with 200 whatever the other providers did; its
\* items are the deduped and ranked merge of the lists the providers returned,
\* and no provider error message is in the response.
C2_PartialFailureSucceeds ==
    [][\A r \in Requests :
        (Finishes(r) /\ SomeProviderHasItems(r)) =>
            /\ outcome'[r].status = 200
            /\ DOMAIN outcome'[r] = {"status", "body"}
            /\ IsRanked(outcome'[r].body.items, dedupe(items_of(Gathered(r))))]_vars

\* C3 as stated: an identical request issued after the first has completed,
\* within the TTL, gets the first one's response and invokes neither geocode
\* nor a provider adapter (the first having gathered items from a provider).
C3_SecondCallServedFromCache ==
    \A r1, r2 \in Requests :
        ( /\ r1 \in before[r2]
          /\ req[r1] = req[r2]
          /\ now < ttl_seconds
          /\ gathered[r1] = "items"
          /\ pc[r2] # "idle" ) =>
            /\ geo[r2] = "none"
            /\ NoProviderCall(r2)
            /\ outcome[r2] = outcome[r1]

\* C4 as stated: after a request in which every enabled provider returned no
\* items (ended with 500), an identical request within the TTL gets a 200 with
\* an empty items list from the cache, launching neither geocode nor a provider.
C4_EmptyResponseReplayed ==
    \A r1, r2 \in Requests :
        ( /\ r1 \in before[r2]
          /\ req[r1] = req[r2]
          /\ now < ttl_seconds
          /\ gathered[r1] = "empty"
          /\ outcome[r1].status = 500
          /\ pc[r2] # "idle" ) =>
            /\ geo[r2] = "none"
            /\ NoProviderCall(r2)
            /\ outcome[r2].status = 200
            /\ DOMAIN outcome[r2] = {"status", "body"}
            /\ outcome[r2].body.items = <<>>

\* C5 as stated: when every enabled provider returns nothing, the request
\* writes the empty merged response to the cache under its key and then fails
\* with 500 carrying the first collected error message in launch order, or
\* 'No results' when no provider reported an error.
C5_AllFailedCachesThenFails ==
    [][\A r \in Requests :
        (Finishes(r) /\ EveryProviderEmpty(r)) =>
            LET errors == errors_of(Gathered(r))
                key == cache_key(req[r], env)
            IN  /\ wrote'[r]
                /\ key \in DOMAIN cache'
                /\ cache'[key].data.items = <<>>
                /\ outcome'[r] = HTTPException(500, IF errors # <<>> THEN errors[1]
                                                    ELSE "No results")]_vars

\* C6: within a request the geocode call is over (result, not-found, failure
\* or timeout) before any provider call is launched: a launched provider call
\* implies a finished geocode call, and while the geocode call is pending the
\* handler is still at its await with no provider call launched.
C6_GeocodeBeforeProviders ==
    \A r \in Requests :
        /\ ~NoProviderCall(r) => geo[r] \in {"returned", "raised", "cancelled"}
        /\ geo[r] = "pending" => pc[r] = "geocode" /\ NoProviderCall(r)

C6_Witness ==
    \E r \in Requests :
        /\ geo[r] = "returned"
        /\ \E p \in ProviderSet : calls[r][p] = "pending"

\* C7: if geocoding returns not-found, raises or times out, the request ends
\* with 400 'Geocoding failed or timed out', launches no provider adapter and
\* does not write the response cache.
C7_GeocodeFailureIs400 ==
    \A r \in Requests :
        GeocodeFailure(r) =>
            /\ pc[r] = "done"
            /\ outcome[r] = GeocodingFailed
            /\ NoProviderCall(r)
            /\ ~wrote[r]
            /\ cache_key(req[r], env) \notin DOMAIN cache

C7_Witness ==
    \E r1, r2 \in Requests :
        /\ geo[r1] = "cancelled" /\ outcome[r1] = GeocodingFailed
        /\ geo[r2] = "returned" /\ center[r2] = None /\ outcome[r2] = GeocodingFailed

\* C8: run_with_timeout never raises: an operation that finishes in time gives
\* (its result, no message); a deadline that elapses first gives (empty list,
\* a message naming the label and the timeout); an operation that raises gives
\* (empty list, a message with the label and the failure text).
C8_WrapperNeverRaises ==
    fnOut # None =>
        /\ fnOut.state = "returned"
        /\ fnIn.op.kind = "returns" =>
             fnOut.items = fnIn.op.value /\ fnOut.err = None
        /\ fnIn.op.kind = "runs on" =>
             /\ fnOut.items = EmptyList
             /\ DOMAIN fnOut.err = {"label", "timed_out_after"}
             /\ fnOut.err.label = fnIn.label
             /\ fnOut.err.timed_out_after = fnIn.seconds
        /\ fnIn.op.kind = "raises" =>
             /\ fnOut.items = EmptyList
             /\ DOMAIN fnOut.err = {"label", "error"}
             /\ fnOut.err.label = fnIn.label
             /\ fnOut.err.error = fnIn.op.text

C8_Witness ==
    /\ fnOut # None
    /\ fnIn.op = OpRaises("ConnectError")
    /\ fnIn.label = "yelp"
    /\ fnOut = Pair(EmptyList, ErrorMsg("yelp", "ConnectError"))

-----------------------------------------------------------------------------
(* Liveness: the event loop runs every timer and every ready task.  A
   network call may never answer, so nothing is assumed of GeocodeEnds and
   ProviderEnds. *)

TimerOrReady(r) ==
    \/ GeocodeTimesOut(r)
    \/ \E p \in ProviderSet : ProviderTimesOut(r, p)
    \/ Finish(r)

FairSpec == Spec /\ \A r \in Requests : WF_vars(TimerOrReady(r))

\* until the gather is handed to the handler a finished provider call keeps
\* its result, and its end changes nothing of the other calls of the request
ProvidersIndependent ==
    \A r \in Requests : \A p \in ProviderSet :
        /\ (results[r][p] # NoResult /\ ~Finishes(r)) => results'[r][p] = results[r][p]
        /\ (calls[r][p] = "pending" /\ calls'[r][p] # "pending") =>
             \A q \in ProviderSet \ {p} :
                 calls'[r][q] = calls[r][q] /\ results'[r][q] = results[r][q]

OneOutcome ==
    \A r \in Requests :
        /\ pc[r] = "done" => pc'[r] = "done" /\ outcome'[r] = outcome[r]
        /\ pc'[r] = "done" => outcome'[r].status \in {200, 400, 500}
        /\ pc'[r] # "done" => outcome'[r] = NoOutcome

\* C9: every request that was started eventually completes, with exactly one
\* outcome (200, 400 or 500), even if the geocode call or any provider call
\* never returns, the timeouts firing; a slow or failing provider does not
\* cancel or change what was collected from another provider.
C9_EveryRequestCompletes ==
    /\ \A r \in Requests : (pc[r] # "idle") ~> (pc[r] = "done")
    /\ [][OneOutcome /\ ProvidersIndependent]_vars

C9_Witness ==
    \E r1, r2 \in Requests : \E p, q \in ProviderSet :
        /\ pc[r1] = "done" /\ geo[r1] = "cancelled" /\ outcome[r1].status = 400
        /\ pc[r2] = "gather" /\ GatherDone(r2)
        /\ results[r2][p] = Pair(EmptyList, TimeoutMsg(p, PROVIDER_TIMEOUT_S))
        /\ calls[r2][q] = "returned"
        /\ results[r2][q].items # EmptyList

\* C10 as stated: build_window with timeframe 'custom' and rangeStart or
\* rangeEnd missing fails with InvalidRequest and returns no window; with both
\* present it returns exactly the two parsed bounds.
C10_CustomNeedsBothBounds ==
    (fnOut # None /\ fnIn.timeframe = "custom") =>
        IF fnIn.range_start = None \/ fnIn.range_end = None
        THEN fnOut.raised /\ fnOut.error = "InvalidRequest"
        ELSE (~fromisoformat(fnIn.range_start).raised
                /\ ~fromisoformat(fnIn.range_end).raised) =>
             fnOut = Returned(<<fromisoformat(fnIn.range_start).value,
                                fromisoformat(fnIn.range_end).value>>)

-----------------------------------------------------------------------------
(* dedupe applied to lists of items that differ in the case of their titles
   and in coordinates on either side of a rounding step and of zero *)

SeqsUpTo(S, n) == UNION {[1..k -> S] : k \in 0..n}

DedupeItems ==
    {PlanItem(t, la, lo, "yelp") :
        t \in {"Jazz Night", "JAZZ NIGHT", "Museum"},
        la \in {4885314, 4885316},
        lo \in {-1, 1}}

InitDedupe ==
    /\ PlanIdle
    /\ fnIn \in [items : SeqsUpTo(DedupeItems, MaxLen)]
    /\ fnOut = None

ApplyDedupe ==
    /\ fnOut = None
    /\ fnOut' = List(dedupe(fnIn.items))
    /\ UNCHANGED <<planVars, fnIn, tmVars>>

SpecDedupe == InitDedupe /\ [][ApplyDedupe]_vars

\* x * 1e-5 rounded to 4 decimals, the number (in units of 1e-4)
Round4(x) == (IF x < 0 THEN 0 - 1 ELSE 1) * ((Abs(x) + 5) \div 10)

CompositeKey(it) == <<lower(it.title), Round4(it.lat), Round4(it.lon)>>

\* the positions of xs that hold the first occurrence of their composite key
FirstOccurrences(xs) ==
    {i \in 1..Len(xs) : \A j \in 1..(i - 1) : CompositeKey(xs[j]) # CompositeKey(xs[i])}

RECURSIVE Pick(_, _, _)
\* the elements of xs at the positions of keep, from position i on, in order
Pick(xs, keep, i) ==
    IF i > Len(xs) THEN <<>>
    ELSE (IF i \in keep THEN <<xs[i]>> ELSE <<>>) \o Pick(xs, keep, i + 1)

\* C11 as stated: dedupe returns a list no longer than its input in which no
\* two items share the composite key (lower-cased title, lat rounded to 4
\* decimals, lon rounded to 4 decimals); the item kept for a key is its first
\* occurrence, and the kept items are in the order of the input.
C11_DedupeByCompositeKey ==
    fnOut # None =>
        LET out == fnOut.list
        IN  /\ Len(out) <= Len(fnIn.items)
            /\ \A i, j \in 1..Len(out) :
                   i # j => CompositeKey(out[i]) # CompositeKey(out[j])
            /\ out = Pick(fnIn.items, FirstOccurrences(fnIn.items), 1)

-----------------------------------------------------------------------------
(* rank applied to lists of items of every source, every limit and every
   draw of the jitter *)

RankItems ==
    {PlanItem("Jazz Night", 4885314, 234562, src) :
        src \in {"event", "eventbrite", "google", "yelp", "fallback", NoSource}}

RankInputs ==
    UNION {[items : {xs}, limit : 0..MaxLimit,
            draws : [1..Len(xs) -> 0..(JitterSteps - 1)]] :
           xs \in SeqsUpTo(RankItems, MaxLen)}

InitRank ==
    /\ PlanIdle
    /\ fnIn \in RankInputs
    /\ fnOut = None

ApplyRank ==
    /\ fnOut = None
    /\ fnOut' = List(rank(fnIn.items, fnIn.limit, fnIn.draws))
    /\ UNCHANGED <<planVars, fnIn, tmVars>>

SpecRank == InitRank /\ [][ApplyRank]_vars

\* the tiers the ranking documents
Tier(it) ==
    IF it.source \in {"event", "eventbrite"} THEN 4
    ELSE IF it.source = "google" THEN 3
    ELSE IF it.source = "yelp" THEN 2
    ELSE 1

Count(xs, x) == Cardinality({i \in 1..Len(xs) : xs[i] = x})

\* C12: rank returns exactly min(limit, len(input)) items, each taken from the
\* input and none more often than the input holds it, in non-increasing tier
\* order whatever the jitter drew; no item is dropped by the truncation while
\* an item of a lower tier is kept.
C12_RankByTier ==
    fnOut # None =>
        LET out == fnOut.list
            inp == fnIn.items
        IN  /\ Len(out) = Min(fnIn.limit, Len(inp))
            /\ \A x \in Range(out) : Count(out, x) <= Count(inp, x)
            /\ \A i, j \in 1..Len(out) : i < j => Tier(out[i]) >= Tier(out[j])
            /\ \A x \in Range(inp) :
                   Count(out, x) < Count(inp, x) =>
                       \A y \in Range(out) : Tier(y) >= Tier(x)

\* a yelp item that drew the larger jitter stands before an event and a
\* google item; the limit of 2 drops it
C12_Witness ==
    /\ fnOut # None
    /\ Len(fnIn.items) = 3
    /\ fnIn.limit = 2
    /\ fnIn.items[1].source = "yelp" /\ fnIn.draws[1] = 1
    /\ fnIn.items[2].source = "google" /\ fnIn.draws[2] = 0
    /\ fnIn.items[3].source = "event" /\ fnIn.draws[3] = 0
    /\ fnOut.list = <<fnIn.items[3], fnIn.items[2]>>

-----------------------------------------------------------------------------
(* The windows of the timeframes 'day', 'weekend' and 'week'.  Day 1 of the
   proleptic Gregorian calendar is a Monday. *)

IsMonday(day) == day % 7 = 1

IsSaturday(day) == day % 7 = 6

\* C13: for a date of any weekday, 'day' yields the date from 00:00:00 to
\* 23:59:59; 'weekend' yields the first Saturday on or after the date at
\* 00:00:00 through the Sunday after it at 23:59:59; 'week' yields the Monday
\* on or before the date at 00:00:00 through the Sunday six days later at
\* 23:59:59, a window that contains the date.
C13_WindowsOfTimeframes ==
    (fnOut # None /\ ~fromisoformat(fnIn.date_iso).raised) =>
        LET date == fromisoformat(fnIn.date_iso).value
            lo == fnOut.value[1]
            hi == fnOut.value[2]
        IN  /\ fnIn.timeframe = "day" =>
                 /\ ~fnOut.raised
                 /\ lo = [day |-> date.day, sec |-> 0]
                 /\ hi = [day |-> date.day, sec |-> 86399]
            /\ fnIn.timeframe = "weekend" =>
                 /\ ~fnOut.raised
                 /\ IsSaturday(lo.day) /\ lo.sec = 0
                 /\ lo.day >= date.day
                 /\ \A d \in date.day..(lo.day - 1) : ~IsSaturday(d)
                 /\ hi = [day |-> lo.day + 1, sec |-> 86399]
            /\ fnIn.timeframe = "week" =>
                 /\ ~fnOut.raised
                 /\ IsMonday(lo.day) /\ lo.sec = 0
                 /\ lo.day <= date.day
                 /\ \A d \in (lo.day + 1)..date.day : ~IsMonday(d)
                 /\ hi = [day |-> lo.day + 6, sec |-> 86399]
                 /\ lo.day <= date.day /\ date.day <= hi.day

\* the weekend of a Sunday is the one six days later; the week of that Sunday
\* began six days before it
C13_Witness ==
    /\ fnOut # None
    /\ ~fromisoformat(fnIn.date_iso).raised
    /\ LET date == fromisoformat(fnIn.date_iso).value
       IN  /\ date.day % 7 = 0
           /\ date.sec = 36000
           /\ \/ fnIn.timeframe = "weekend"
                 /\ fnOut.value = <<[day |-> date.day + 6, sec |-> 0],
                                    [day |-> date.day + 7, sec |-> 86399]>>
              \/ fnIn.timeframe = "week"
                 /\ fnOut.value = <<[day |-> date.day - 6, sec |-> 0],
                                    [day |-> date.day, sec |-> 86399]>>

-----------------------------------------------------------------------------
(* providers/yelp.py: _price_band *)

\* A str that int() accepts, written by the integer it spells ("20", " 20 ",
\* "+20", "-2"); every other str is a Text
Numeral(n) == [numeral |-> n]

\* int(budget): the integer, or ValueError
int(budget) ==
    IF DOMAIN budget = {"numeral"} THEN Returned(budget.numeral)
    ELSE Raised("ValueError")

\* _price_band with its comparisons written <=
price_band_inclusive(budget) ==
    LET p == int(budget)
    IN  IF p.raised THEN "1,2,3"
        ELSE IF p.value <= 25 THEN "1"
        ELSE IF p.value <= 60 THEN "1,2"
        ELSE IF p.value <= 120 THEN "2,3"
        ELSE "3,4"

price_band(budget) ==
    LET p == int(budget)
    IN  IF p.raised THEN "1,2,3"
        ELSE LET b == p.value
             IN  IF b < 25 THEN "1"
                 ELSE IF b < 60 THEN "1,2"
                 ELSE IF b < 120 THEN "2,3"
                 ELSE "3,4"

Budgets ==
    {Numeral(n) : n \in (0 - 2)..MaxBudget}
    \cup {Text(""), Text("cheap"), Text("20.5")}

InitBudget ==
    /\ PlanIdle
    /\ fnIn \in [budget : Budgets]
    /\ fnOut = None

ApplyBudget ==
    /\ fnOut = None
    /\ fnOut' = Text(price_band(fnIn.budget))
    /\ UNCHANGED <<planVars, fnIn, tmVars>>

SpecBudget == InitBudget /\ [][ApplyBudget]_vars

\* C14: a budget that parses as an integer b maps to "1" when b < 25, to "1,2"
\* when 25 <= b < 60, to "2,3" when 60 <= b < 120 and to "3,4" when b >= 120;
\* a budget that does not parse as an integer maps to "1,2,3".
C14_PriceBands ==
    fnOut # None =>
        IF DOMAIN fnIn.budget = {"numeral"}
        THEN LET b == fnIn.budget.numeral
             IN  /\ b < 25 => fnOut = Text("1")
                 /\ (25 <= b /\ b < 60) => fnOut = Text("1,2")
                 /\ (60 <= b /\ b < 120) => fnOut = Text("2,3")
                 /\ b >= 120 => fnOut = Text("3,4")
                 /\ fnIn.budget = Numeral(20) => fnOut = Text("1")
                 /\ fnIn.budget = Numeral(50) => fnOut = Text("1,2")
                 /\ fnIn.budget = Numeral(100) => fnOut = Text("2,3")
        ELSE fnOut = Text("1,2,3")

\* the budgets on the band edges
C14_Witness ==
    /\ fnOut # None
    /\ \/ fnIn.budget = Numeral(25) /\ fnOut = Text("1,2")
       \/ fnIn.budget = Numeral(60) /\ fnOut = Text("2,3")
       \/ fnIn.budget = Numeral(120) /\ fnOut = Text("3,4")
       \/ fnIn.budget = Text("cheap") /\ fnOut = Text("1,2,3")

-----------------------------------------------------------------------------
(* providers/*.py: the upstream HTTP responses and the JSON they carry.
   Of a PlanItem the model keeps title, lat, lon and source; url, venue,
   address and whenISO are left out, and with them the reads of the upstream
   fields they are built from. *)

\* httpx.Response: its status and its body
Response(status_code, body) == [status_code |-> status_code, body |-> body]

\* a body that is the JSON text of v
Json(v) == [json |-> v]

\* a body that is not JSON
NotJson == [raw |-> "<html>"]

\* r.json()
json(r) ==
    IF DOMAIN r.body = {"json"} THEN Returned(r.body.json)
    ELSE Raised("JSONDecodeError")

\* JSON values: null is None, an array a List, a string a Text or, when float()
\* accepts it, the Decimal of the number it spells; numbers are in units of
\* 1e-5
Num(n) == [num |-> n]

Decimal(n) == [decimal |-> n]

\* a JSON object: fields is a function from the keys present
Dict(fields) == [dict |-> fields]

EmptyDict == Dict([k \in {} |-> None])

IsDict(v) == DOMAIN v = {"dict"}

IsList(v) == DOMAIN v = {"list"}

IsText(v) == DOMAIN v = {"text"}

\* "not v"
Falsy(v) ==
    \/ v = None
    \/ v = Text("")
    \/ v = Num(0)
    \/ v = EmptyList
    \/ IsDict(v) /\ DOMAIN v.dict = {}

\* d.get(k) of a dict d
get(d, k) == IF k \in DOMAIN d.dict THEN d.dict[k] ELSE None

\* "a or b"
or_else(a, b) == IF Falsy(a) THEN b ELSE a

\* "v or {}"
or_empty(v) == or_else(v, EmptyDict)

\* float(v)
float(v) ==
    IF DOMAIN v = {"num"} THEN Returned(v.num)
    ELSE IF DOMAIN v = {"decimal"} THEN Returned(v.decimal)
    ELSE IF IsText(v) THEN Raised("ValueError")
    ELSE Raised("TypeError")

\* A for loop that appends one item per record unless the record is skipped
\* (None) and that an exception ends: steps[i] is what record i does
RECURSIVE Appended(_)
Appended(steps) ==
    IF steps = <<>> THEN <<>>
    ELSE (IF Head(steps).value = None THEN <<>> ELSE <<Head(steps).value>>)
         \o Appended(Tail(steps))

Loop(steps) ==
    IF \E i \in 1..Len(steps) : steps[i].raised
    THEN steps[CHOOSE i \in 1..Len(steps) :
                  steps[i].raised /\ \A j \in 1..(i - 1) : ~steps[j].raised]
    ELSE Returned(List(Appended(steps)))

\* PlanItem(title=...): pydantic accepts a str only
Titled(v, lat, lon, source) ==
    IF IsText(v) THEN Returned(PlanItem(v.text, lat, lon, source))
    ELSE Raised("ValidationError")

-----------------------------------------------------------------------------
(* providers/geo.py *)

\* the call on the response r of the upstream search
geocode(r) ==
    IF r.status_code # 200 THEN Returned(None)
    ELSE LET data == json(r)
         IN  IF data.raised THEN data
             ELSE IF Falsy(data.value) THEN Returned(None)
             ELSE IF IsDict(data.value) THEN Raised("KeyError")
             ELSE IF ~IsList(data.value) THEN Raised("TypeError")
             ELSE LET first == data.value.list[1]
                  IN  IF ~IsDict(first) THEN Raised("TypeError")
                      ELSE IF "lat" \notin DOMAIN first.dict THEN Raised("KeyError")
                      ELSE LET lat == float(first.dict.lat)
                           IN  IF lat.raised THEN lat
                               ELSE IF "lon" \notin DOMAIN first.dict
                               THEN Raised("KeyError")
                               ELSE LET lon == float(first.dict.lon)
                                    IN  IF lon.raised THEN lon
                                        ELSE Returned([lat |-> lat.value,
                                                       lon |-> lon.value])

-----------------------------------------------------------------------------
(* providers/yelp.py *)

\* lines 39-52, the body of the loop over the businesses
yelp_record(b) ==
    IF ~IsDict(b) THEN Raised("AttributeError")
    ELSE LET coords == get(b, "coordinates")
         IN  IF Falsy(coords) THEN Returned(None)
             ELSE IF ~IsDict(coords) THEN Raised("AttributeError")
             ELSE IF Falsy(get(coords, "latitude")) \/ Falsy(get(coords, "longitude"))
             THEN Returned(None)
             ELSE LET lat == float(get(coords, "latitude"))
                      lon == float(get(coords, "longitude"))
                  IN  IF lat.raised THEN lat
                      ELSE IF lon.raised THEN lon
                      ELSE Titled(IF "name" \in DOMAIN b.dict THEN b.dict.name
                                  ELSE Text("Place"),
                                  lat.value, lon.value, "yelp")

\* query(params) on the response r
yelp_query(r) ==
    IF r.status_code # 200 THEN Returned(EmptyList)
    ELSE LET js == json(r)
         IN  IF js.raised THEN js
             ELSE IF ~IsDict(js.value) THEN Raised("AttributeError")
             ELSE LET businesses == IF "businesses" \in DOMAIN js.value.dict
                                    THEN js.value.dict.businesses
                                    ELSE EmptyList
                  IN  IF ~IsList(businesses) THEN Raised("TypeError")
                      ELSE Loop([i \in 1..Len(businesses.list) |->
                                    yelp_record(businesses.list[i])])

\* What an adapter call did: its result and the upstream requests it sent
Did(result, sent) == [result |-> result, sent |-> sent]

\* resps[k] is the response to the k-th request the call sends
fetch_yelp(budget, use_open_now, api_key, resps) ==
    LET strict == [radius |-> 8000, price |-> price_band(budget), open_now |-> TRUE]
        relaxed == [radius |-> 12000, price |-> "1,2,3,4", open_now |-> FALSE]
    IN  IF ~api_key THEN Did(Returned(EmptyList), <<>>)
        ELSE IF use_open_now
        THEN LET items == yelp_query(resps[1])
             IN  IF items.raised \/ items.value # EmptyList
                 THEN Did(items, <<strict>>)
                 ELSE Did(yelp_query(resps[2]), <<strict, relaxed>>)
        ELSE Did(yelp_query(resps[1]), <<relaxed>>)

-----------------------------------------------------------------------------
(* providers/ticketmaster.py: lines 57-90, the translation of a 200 *)

\* lines 62-87, the body of the loop over the events
tm_record(ev) ==
    IF ~Falsy(ev) /\ ~IsDict(ev) THEN Raised("AttributeError")
    ELSE LET embedded == get(or_empty(ev), "_embedded")
         IN  IF ~Falsy(embedded) /\ ~IsDict(embedded) THEN Raised("AttributeError")
             ELSE LET venues == get(or_empty(embedded), "venues")
                  IN  IF ~Falsy(venues) /\ ~IsList(venues) THEN Raised("KeyError")
                      ELSE LET venue == or_empty(IF Falsy(venues) THEN None
                                                 ELSE venues.list[1])
                           IN  IF ~IsDict(venue) THEN Raised("AttributeError")
                               ELSE LET loc == or_empty(get(venue, "location"))
                                        vlat == IF ~IsDict(loc) THEN Raised("AttributeError")
                                                ELSE float(or_else(get(loc, "latitude"),
                                                                   get(venue, "latitude")))
                                        vlon == IF ~IsDict(loc) THEN Raised("AttributeError")
                                                ELSE float(or_else(get(loc, "longitude"),
                                                                   get(venue, "longitude")))
                                    IN  \* try ... except Exception: continue
                                        IF vlat.raised \/ vlon.raised THEN Returned(None)
                                        ELSE Titled(or_else(get(ev, "name"), Text("Event")),
                                                    vlat.value, vlon.value, "event")

\* lines 58-87: out, or the exception that ends the call
tm_events(r) ==
    LET js == json(r)
    IN  IF js.raised THEN js
        ELSE IF ~Falsy(js.value) /\ ~IsDict(js.value) THEN Raised("AttributeError")
        ELSE LET embedded == get(or_empty(js.value), "_embedded")
             IN  IF ~Falsy(embedded) /\ ~IsDict(embedded) THEN Raised("AttributeError")
                 ELSE LET events == or_else(get(or_empty(embedded), "events"), EmptyList)
                      IN  IF ~IsList(events) THEN Raised("AttributeError")
                          ELSE Loop([i \in 1..Len(events.list) |->
                                        tm_record(events.list[i])])

-----------------------------------------------------------------------------
(* providers/eventbrite.py *)

\* lines 29-41, the body of the loop over the events
eb_record(ev) ==
    IF ~IsDict(ev) THEN Raised("AttributeError")
    ELSE LET venue == or_empty(get(ev, "venue"))
             vlat == IF ~IsDict(venue) THEN Raised("AttributeError")
                     ELSE float(get(venue, "latitude"))
             vlon == IF ~IsDict(venue) THEN Raised("AttributeError")
                     ELSE float(get(venue, "longitude"))
         IN  \* try ... except Exception: continue
             IF vlat.raised \/ vlon.raised THEN Returned(None)
             ELSE LET name == or_empty(get(ev, "name"))
                  IN  IF ~IsDict(name) THEN Raised("AttributeError")
                      ELSE Titled(or_else(get(name, "text"), Text("Event")),
                                  vlat.value, vlon.value, "eventbrite")

\* q(params) on the response r
eb_q(r) ==
    IF r.status_code # 200 THEN Returned(EmptyList)
    ELSE LET data == json(r)
         IN  IF data.raised THEN data
             ELSE IF ~IsDict(data.value) THEN Raised("AttributeError")
             ELSE LET events == or_else(get(data.value, "events"), EmptyList)
                  IN  IF ~IsList(events) THEN Raised("TypeError")
                      ELSE LET head == Slice(events.list, 20)
                           IN  Loop([i \in 1..Len(head) |-> eb_record(head[i])])

\* fetch_eventbrite that goes on to the next query whatever the last returned
fetch_eventbrite_all_queries(interests, token, resps) ==
    LET q1 == [q |-> Text(interests), within |-> "10km"]
        q2 == [q |-> None, within |-> "10km"]
        q3 == [q |-> None, within |-> "25km"]
    IN  IF ~token THEN Did(Returned(EmptyList), <<>>)
        ELSE LET a == eb_q(resps[1])
                 b == eb_q(resps[2])
             IN  IF a.raised THEN Did(a, <<q1>>)
                 ELSE IF b.raised THEN Did(b, <<q1, q2>>)
                 ELSE Did(eb_q(resps[3]), <<q1, q2, q3>>)

\* resps[k] is the response to the k-th query the call sends
fetch_eventbrite(interests, token, resps) ==
    LET q1 == [q |-> Text(interests), within |-> "10km"]
        q2 == [q |-> None, within |-> "10km"]
        q3 == [q |-> None, within |-> "25km"]
    IN  IF ~token THEN Did(Returned(EmptyList), <<>>)
        ELSE LET a == eb_q(resps[1])
             IN  IF a.raised \/ a.value # EmptyList THEN Did(a, <<q1>>)
                 ELSE LET b == eb_q(resps[2])
                      IN  IF b.raised \/ b.value # EmptyList THEN Did(b, <<q1, q2>>)
                          ELSE Did(eb_q(resps[3]), <<q1, q2, q3>>)

-----------------------------------------------------------------------------
(* The adapters applied to upstream responses: every status class, bodies
   that are not JSON, JSON of another shape than expected, and records with
   good, missing and non-numeric coordinates *)

BadStatus == {Response(404, NotJson), Response(429, Json(Dict([error |-> Text("slow down")])))}

GeoResponses ==
    BadStatus \cup
    {Response(200, b) : b \in
        {NotJson, Json(None), Json(EmptyList),
         Json(Dict([error |-> Text("Unable to geocode")])),
         Json(List(<<Dict([lat |-> Decimal(4885660), lon |-> Decimal(235220)])>>)),
         Json(List(<<Dict([lat |-> Decimal(4885660)])>>)),
         Json(List(<<Dict([lat |-> Text("n/a"), lon |-> Decimal(235220)])>>))}}

YelpBusinesses ==
    {Dict([name |-> Text("Museum"),
           coordinates |-> Dict([latitude |-> Num(4886000), longitude |-> Num(233700)])]),
     Dict([name |-> Text("Jazz Club"),
           coordinates |-> Dict([latitude |-> Decimal(4885312), longitude |-> Num(234561)])]),
     Dict([name |-> Text("Cafe")]),
     Dict([name |-> Text("Bar"), coordinates |-> None]),
     Dict([name |-> Text("Pier"),
           coordinates |-> Dict([latitude |-> Text("n/a"), longitude |-> Num(233700)])])}

YelpResponses ==
    BadStatus \cup
    {Response(200, b) : b \in
        {NotJson, Json(EmptyList), Json(Dict([error |-> Text("VALIDATION_ERROR")]))}
        \cup {Json(Dict([businesses |-> List(bs)])) : bs \in SeqsUpTo(YelpBusinesses, MaxRecords)}}

TMVenue(lat, lon) ==
    Dict([name |-> Text("Le Duc"),
          location |-> Dict([latitude |-> lat, longitude |-> lon])])

TMEvents ==
    {Dict([name |-> Text("Jazz Night"),
           _embedded |-> Dict([venues |-> List(<<TMVenue(Decimal(4885314), Decimal(234562))>>)])]),
     Dict([name |-> Text("Quartet"),
           _embedded |-> Dict([venues |-> List(<<TMVenue(Text("TBA"), Decimal(234562))>>)])]),
     Dict([name |-> Text("Online Show")]),
     Dict([name |-> Text("Festival"),
           _embedded |-> Dict([venues |-> List(<<Dict([name |-> Text("Parc")])>>)])])}

TMPayloads ==
    {NotJson, Json(None), Json(EmptyList),
     Json(Dict([fault |-> Text("Invalid ApiKey")]))}
    \cup {Json(Dict([_embedded |-> Dict([events |-> List(evs)])])) :
             evs \in SeqsUpTo(TMEvents, MaxRecords)}

TMResponses ==
    {Response(401, Json(Dict([fault |-> Text("Invalid ApiKey")]))), Response(500, NotJson)}
    \cup {Response(200, b) : b \in TMPayloads}

EBVenue(lat, lon) == Dict([latitude |-> lat, longitude |-> lon])

EBEvents ==
    {Dict([name |-> Dict([text |-> Text("JAZZ NIGHT")]),
           venue |-> EBVenue(Decimal(4885314), Decimal(234562))]),
     Dict([name |-> Dict([text |-> Text("Open Mic")]),
           venue |-> EBVenue(None, None)]),
     Dict([name |-> Dict([text |-> Text("Webinar")])]),
     Dict([name |-> None, venue |-> EBVenue(Decimal(4886000), Decimal(233700))])}

EBResponses ==
    BadStatus \cup
    {Response(200, b) : b \in
        {NotJson, Json(EmptyList), Json(Dict([error |-> Text("NOT_AUTHORIZED")]))}
        \cup {Json(Dict([events |-> List(evs)])) : evs \in SeqsUpTo(EBEvents, MaxRecords)}}

\* the responses to the second and third query of an eventbrite call
EBLater ==
    {Response(404, NotJson),
     Response(200, Json(Dict([events |-> List(<<
         Dict([name |-> Dict([text |-> Text("JAZZ NIGHT")]),
               venue |-> EBVenue(Decimal(4885314), Decimal(234562))])>>)])))}

AdapterInputs ==
    [adapter : {"geocode"}, resps : [1..1 -> GeoResponses]]
    \cup [adapter : {"yelp"}, use_open_now : BOOLEAN, resps : [1..2 -> YelpResponses]]
    \cup [adapter : {"ticketmaster"}, resps : [1..1 -> TMResponses]]
    \cup [adapter : {"eventbrite"},
          resps : {<<a, b, c>> : a \in EBResponses, b \in EBLater, c \in EBLater}]

\* fetch_ticketmaster on its first response, when that is not a 429
tm_once(r) ==
    IF r.status_code = 200 THEN tm_events(r) ELSE Returned(EmptyList)

InitAdapters ==
    /\ PlanIdle
    /\ fnIn \in AdapterInputs
    /\ fnOut = None

ApplyAdapter ==
    /\ fnOut = None
    /\ fnOut' = CASE fnIn.adapter = "geocode" ->
                       Did(geocode(fnIn.resps[1]), <<"search">>)
                  [] fnIn.adapter = "yelp" ->
                       fetch_yelp(Numeral(50), fnIn.use_open_now, TRUE, fnIn.resps)
                  [] fnIn.adapter = "ticketmaster" ->
                       Did(tm_once(fnIn.resps[1]), <<"events">>)
                  [] OTHER ->
                       fetch_eventbrite("jazz", TRUE, fnIn.resps)
    /\ UNCHANGED <<planVars, fnIn, tmVars>>

SpecAdapters == InitAdapters /\ [][ApplyAdapter]_vars

-----------------------------------------------------------------------------
(* Claims about the adapters *)

\* the last response the call consumed
LastResponse == fnIn.resps[Len(fnOut.sent)]

\* C16 as stated: an upstream non-success status or a malformed success
\* payload (a body that does not parse, or expected fields missing) never
\* leaves geocode or a provider adapter as an exception: the provider
\* adapters return an empty list and geocode returns not-found.
C16_BadResponsesAbsorbed ==
    fnOut # None =>
        /\ ~fnOut.result.raised
        /\ (LastResponse.status_code # 200 \/ LastResponse.body = NotJson) =>
              fnOut.result = Returned(IF fnIn.adapter = "geocode" THEN None
                                      ELSE EmptyList)

RECURSIVE Dig(_, _)
\* the value under a path of keys ("0": the first element of an array), None
\* where the path leaves the value
Dig(v, path) ==
    IF path = <<>> THEN v
    ELSE IF IsDict(v) /\ Head(path) \in DOMAIN v.dict
         THEN Dig(v.dict[Head(path)], Tail(path))
    ELSE IF IsList(v) /\ Head(path) = "0" /\ v.list # <<>>
         THEN Dig(v.list[1], Tail(path))
    ELSE None

Numeric(v) == DOMAIN v = {"num"} \/ DOMAIN v = {"decimal"}

\* where the upstream of an adapter keeps its records and their coordinates
RecordsPath(adapter) ==
    CASE adapter = "yelp" -> <<"businesses">>
      [] adapter = "ticketmaster" -> <<"_embedded", "events">>
      [] OTHER -> <<"events">>

CoordPath(adapter, axis) ==
    CASE adapter = "yelp" -> <<"coordinates", axis>>
      [] adapter = "ticketmaster" -> <<"_embedded", "venues", "0", "location", axis>>
      [] OTHER -> <<"venue", axis>>

HasCoordinates(adapter, rec) ==
    /\ Numeric(Dig(rec, CoordPath(adapter, "latitude")))
    /\ Numeric(Dig(rec, CoordPath(adapter, "longitude")))

\* C17 as stated: every item a provider adapter emits has a numeric lat and
\* lon; a record whose coordinates are absent or not numeric is skipped by
\* itself, the call does not fail, and the records of the same response that
\* have coordinates are returned.
C17_BadRecordsSkipped ==
    ( /\ fnOut # None
      /\ fnIn.adapter # "geocode"
      /\ LastResponse.status_code = 200
      /\ LastResponse.body # NotJson
      /\ IsList(Dig(LastResponse.body.json, RecordsPath(fnIn.adapter))) ) =>
        LET recs == Dig(LastResponse.body.json, RecordsPath(fnIn.adapter)).list
            good == {i \in 1..Len(recs) : HasCoordinates(fnIn.adapter, recs[i])}
        IN  /\ ~fnOut.result.raised
            /\ Len(fnOut.result.value.list) = Cardinality(good)
            /\ \A i \in 1..Len(fnOut.result.value.list) :
                   /\ fnOut.result.value.list[i].lat \in Int
                   /\ fnOut.result.value.list[i].lon \in Int

-----------------------------------------------------------------------------
(* providers/ticketmaster.py: fetch_ticketmaster with its micro-cache and its
   retries.  Times are tenths of a second. *)

\* _TM_CACHE_TTL = 30.0
TM_CACHE_TTL == 300

\* backoff = 1.2
FirstBackoff == 12

\* range(3)
Attempts == 3

\* (interests or "").split(",")[0].strip()
keyword(interests) ==
    CASE interests = "jazz" -> "jazz"
      [] interests = "jazz, food" -> "jazz"
      [] interests = " jazz ,food" -> "jazz"
      [] OTHER -> ""

TMInterests == {"jazz", "jazz, food", ""}

\* iso_no_ms of a naive datetime: the same instant read as UTC, as text
iso_no_ms(dt) == Iso(dt.day, dt.sec)

\* round(x, 5): coordinates are in units of 1e-5 already
round5(x) == x

\* line 30
tm_cache_key(c, start, end, interests) ==
    <<round5(c.lat), round5(c.lon), iso_no_ms(start), iso_no_ms(end),
      keyword(interests)>>

\* the window of the calls of the model
TMWindow ==
    build_window(Iso(FirstDay, 0), "day", None, None).value

\* backoff *= 1.5
next_backoff(backoff) == (backoff * 3) \div 2

\* line 92 retrying on every status that is not 200
retries_on_any_error(status_code) == status_code # 200

\* line 92
retries_on(status_code) == status_code = 429

\* the responses the upstream gives in the model
TMWire ==
    {Response(429, Json(Dict([fault |-> Text("Spike arrest violation")]))),
     Response(500, NotJson),
     Response(200, NotJson),
     Response(200, Json(Dict([_embedded |-> Dict([events |-> List(<<>>)])]))),
     Response(200, Json(Dict([_embedded |-> Dict([events |-> List(<<
        Dict([name |-> Text("Jazz Night"),
              _embedded |-> Dict([venues |-> List(<<TMVenue(Decimal(4885314),
                                                            Decimal(234562))>>)])]),
        Dict([name |-> Text("Online Show")])>>)])])))}

\* what a call holds as its last response when none has arrived
NoResponse == [status_code |-> 0]

\* the call is over with a result; its locals are gone
TMEnds(c, result, r) ==
    [tmcall EXCEPT ![c].pc = "done", ![c].result = result, ![c].last = r,
                   ![c].attempt = 0, ![c].backoff = 0, ![c].wake = 0]

\* lines 21-56: the call begins; it ends at once without a key or on a fresh
\* micro-cache entry, else it sends its first request
TMStart(c, interests, api_key) ==
    LET key == tm_cache_key(Paris, TMWindow[1], TMWindow[2], interests)
        began == [tmcall EXCEPT ![c].after = {d \in TMCalls : tmcall[d].pc # "idle"},
                                ![c].during = {d \in TMCalls :
                                                  tmcall[d].pc \in {"get", "sleep"}},
                                ![c].key = IF api_key THEN key ELSE <<>>]
    IN  /\ tmcall[c].pc = "idle"
        /\ tmcall' =
             IF ~api_key
             THEN [began EXCEPT ![c].pc = "done", ![c].result = Returned(EmptyList)]
             ELSE IF key \in DOMAIN TM_CACHE /\ (tmclock - TM_CACHE[key].at) < TM_CACHE_TTL
             THEN [began EXCEPT ![c].pc = "done",
                                ![c].result = Returned(List(TM_CACHE[key].items))]
             ELSE [began EXCEPT ![c].pc = "get", ![c].attempt = 0,
                                ![c].backoff = FirstBackoff, ![c].sent = 1]
        /\ UNCHANGED <<planVars, fnIn, fnOut, TM_CACHE, tmclock>>

\* lines 56-103: the response r to the request in flight arrives
TMResponse(c, r) ==
    /\ tmcall[c].pc = "get"
    /\ IF r.status_code = 200
       THEN LET out == tm_events(r)
            IN  IF out.raised
                THEN /\ tmcall' = TMEnds(c, out, r)
                     /\ TM_CACHE' = TM_CACHE
                ELSE /\ tmcall' = TMEnds(c, out, r)
                     /\ TM_CACHE' =
                          [k \in DOMAIN TM_CACHE \cup {tmcall[c].key} |->
                              IF k = tmcall[c].key
                              THEN [at |-> tmclock, items |-> out.value.list]
                              ELSE TM_CACHE[k]]
       ELSE IF retries_on(r.status_code)
       THEN /\ tmcall' = [tmcall EXCEPT ![c].pc = "sleep",
                                        ![c].last = r,
                                        ![c].wake = tmclock + tmcall[c].backoff,
                                        ![c].backoff = next_backoff(tmcall[c].backoff)]
            /\ TM_CACHE' = TM_CACHE
       ELSE /\ tmcall' = TMEnds(c, Returned(EmptyList), r)
            /\ TM_CACHE' = TM_CACHE
    /\ UNCHANGED <<planVars, fnIn, fnOut, tmclock>>

\* line 56: the request fails in transport and client.get raises
TMGetFails(c) ==
    /\ tmcall[c].pc = "get"
    /\ tmcall' = TMEnds(c, Raised("ConnectError"), NoResponse)
    /\ UNCHANGED <<planVars, fnIn, fnOut, TM_CACHE, tmclock>>

\* lines 94-96 and 55: asyncio.sleep(backoff) is over; the loop goes on to its
\* next attempt, or is exhausted and line 105 returns
TMWake(c) ==
    /\ tmcall[c].pc = "sleep"
    /\ tmclock >= tmcall[c].wake
    /\ tmcall' =
         IF tmcall[c].attempt + 1 < Attempts
         THEN [tmcall EXCEPT ![c].pc = "get", ![c].attempt = @ + 1, ![c].sent = @ + 1]
         ELSE TMEnds(c, Returned(EmptyList), tmcall[c].last)
    /\ UNCHANGED <<planVars, fnIn, fnOut, TM_CACHE, tmclock>>

TMTick ==
    /\ tmclock < MaxTMTicks * TickTenths
    /\ tmclock' = tmclock + TickTenths
    /\ UNCHANGED <<planVars, fnIn, fnOut, TM_CACHE, tmcall>>

InitTM ==
    /\ PlanIdle
    /\ fnIn = None
    /\ fnOut = None

NextTM ==
    \/ \E c \in TMCalls, interests \in TMInterests, api_key \in BOOLEAN :
          TMStart(c, interests, api_key)
    \/ \E c \in TMCalls, r \in TMWire : TMResponse(c, r)
    \/ \E c \in TMCalls : TMGetFails(c)
    \/ \E c \in TMCalls : TMWake(c)
    \/ TMTick

SpecTM == InitTM /\ [][NextTM]_vars

-----------------------------------------------------------------------------
(* Claims about fetch_ticketmaster *)

\* the events of a payload that have a venue with numeric coordinates
EventsWithCoordinates(r) ==
    LET events == Dig(r.body.json, RecordsPath("ticketmaster"))
    IN  IF IsList(events)
        THEN {i \in 1..Len(events.list) : HasCoordinates("ticketmaster", events.list[i])}
        ELSE {}

\* C18: a call sends at most 3 requests; it sends a further request only after
\* a 429 and after the backoff is over, the backoff being 1.2 s after the
\* first 429, 1.8 s after the second and 2.7 s after the third; a 200 ends the
\* call without a further request, and the call then returns one item per
\* event that has coordinates; any other status than 429 ends it at once with
\* an empty list; after three 429 in a row it ends with an empty list.
C18_RetryOnlyAfter429 ==
    [][\A c \in TMCalls :
        LET a == tmcall[c]
            b == tmcall'[c]
            status == b.last.status_code
        IN  /\ b.sent <= 3
            /\ (a.pc # "idle" /\ b.sent # a.sent) =>
                  /\ b.sent = a.sent + 1
                  /\ a.pc = "sleep"
                  /\ a.last.status_code = 429
                  /\ tmclock >= a.wake
            /\ (a.pc = "get" /\ b # a /\ status = 429) =>
                  /\ b.pc = "sleep"
                  /\ b.sent = a.sent
                  /\ b.wake = tmclock + (CASE a.sent = 1 -> 12
                                           [] a.sent = 2 -> 18
                                           [] OTHER -> 27)
            /\ (a.pc = "get" /\ b # a /\ status = 200) =>
                  /\ b.pc = "done"
                  /\ b.sent = a.sent
                  /\ ~b.result.raised =>
                        Len(b.result.value.list) = Cardinality(EventsWithCoordinates(b.last))
            /\ (a.pc = "get" /\ b # a /\ status \notin {0, 200, 429}) =>
                  /\ b.pc = "done"
                  /\ b.sent = a.sent
                  /\ b.result = Returned(EmptyList)
            /\ (a.pc = "sleep" /\ b # a /\ a.sent = 3) =>
                  /\ b.pc = "done"
                  /\ b.result = Returned(EmptyList)
            /\ (a.pc = "sleep" /\ b.pc = "done") => a.sent = 3]_vars

\* one call ended empty on its third 429, another with the item of the one
\* event that has coordinates, on a 200 that answered its second request
C18_Witness ==
    \E c, d \in TMCalls :
        /\ tmcall[c].pc = "done" /\ tmcall[c].sent = 3
        /\ tmcall[c].last.status_code = 429
        /\ tmcall[c].result = Returned(EmptyList)
        /\ tmcall[d].pc = "done" /\ tmcall[d].sent = 2
        /\ tmcall[d].last.status_code = 200
        /\ ~tmcall[d].result.raised
        /\ Len(tmcall[d].result.value.list) = 1

\* C19 as stated: of two calls with the same micro-cache key issued within the
\* 30 s of the micro-cache, only the first sends upstream requests and the
\* second is served from the micro-cache with the same items, also when the
\* second begins while the first is in flight.
C19_DuplicateCallAbsorbed ==
    \A c1, c2 \in TMCalls :
        ( /\ c1 # c2
          /\ c1 \in tmcall[c2].after
          /\ tmcall[c1].key # <<>>
          /\ tmcall[c2].key = tmcall[c1].key
          /\ tmclock < TM_CACHE_TTL
          /\ \/ c1 \in tmcall[c2].during
             \/ tmcall[c1].last.status_code = 200 /\ ~tmcall[c1].result.raised ) =>
            /\ tmcall[c2].sent = 0
            /\ (tmcall[c1].pc = "done" /\ tmcall[c2].pc = "done") =>
                   tmcall[c2].result = tmcall[c1].result

-----------------------------------------------------------------------------
(* fetch_eventbrite applied to every sequence of answers to its queries *)

EBShort ==
    {Response(404, NotJson),
     Response(200, NotJson),
     Response(200, Json(Dict([events |-> List(<<>>)]))),
     Response(200, Json(Dict([events |-> List(<<
         Dict([name |-> Dict([text |-> Text("Webinar")])])>>)]))),
     Response(200, Json(Dict([events |-> List(<<
         Dict([name |-> Dict([text |-> Text("JAZZ NIGHT")]),
               venue |-> EBVenue(Decimal(4885314), Decimal(234562))]),
         Dict([name |-> Dict([text |-> Text("Open Mic")]),
               venue |-> EBVenue(None, None)])>>)])))}

InitEventbrite ==
    /\ PlanIdle
    /\ fnIn \in [interests : {"jazz", ""}, token : BOOLEAN, resps : [1..3 -> EBShort]]
    /\ fnOut = None

ApplyEventbrite ==
    /\ fnOut = None
    /\ fnOut' = fetch_eventbrite(fnIn.interests, fnIn.token, fnIn.resps)
    /\ UNCHANGED <<planVars, fnIn, tmVars>>

SpecEventbrite == InitEventbrite /\ [][ApplyEventbrite]_vars

\* the queries in their fixed order: the interest text within 10km, no text
\* within 10km, no text within 25km
QueryOrder(interests) ==
    <<[q |-> Text(interests), within |-> "10km"],
      [q |-> None, within |-> "10km"],
      [q |-> None, within |-> "25km"]>>

\* how many items the answer r holds: the events with a venue that has
\* numeric coordinates, none on a status that is not 200
ItemsIn(r) ==
    IF r.status_code # 200 \/ r.body = NotJson THEN 0
    ELSE LET events == Dig(r.body.json, RecordsPath("eventbrite"))
         IN  IF IsList(events)
             THEN Cardinality({i \in 1..Len(events.list) :
                                  HasCoordinates("eventbrite", events.list[i])})
             ELSE 0

\* the answer is a 200 whose body is not JSON
Unparsable(r) == r.status_code = 200 /\ r.body = NotJson

\* C20: without a token the call returns an empty list and sends nothing;
\* with one it sends at most three queries, in the fixed order, each later
\* query only after every earlier one returned no item, and it returns the
\* result of the first query that returned items, or the empty result of the
\* third.
C20_EventbriteQueryLadder ==
    fnOut # None =>
        LET sent == fnOut.sent
            n == Len(sent)
        IN  IF ~fnIn.token THEN fnOut = Did(Returned(EmptyList), <<>>)
            ELSE /\ n \in 1..3
                 /\ sent = SubSeq(QueryOrder(fnIn.interests), 1, n)
                 /\ \A j \in 1..(n - 1) :
                        ItemsIn(fnIn.resps[j]) = 0 /\ ~Unparsable(fnIn.resps[j])
                 /\ ~fnOut.result.raised =>
                        /\ Len(fnOut.result.value.list) = ItemsIn(fnIn.resps[n])
                        /\ n < 3 => ItemsIn(fnIn.resps[n]) > 0
                 /\ fnOut.result.raised => Unparsable(fnIn.resps[n])

\* the first query is refused, the second finds no event with a venue, the
\* third returns the one event that has coordinates
C20_Witness ==
    /\ fnOut # None
    /\ fnIn.token
    /\ fnIn.resps[1].status_code = 404
    /\ fnIn.resps[2].status_code = 200
    /\ Len(fnOut.sent) = 3
    /\ ~fnOut.result.raised
    /\ Len(fnOut.result.value.list) = 1
    /\ fnOut.result.value.list[1].source = "eventbrite"

-----------------------------------------------------------------------------
(* utils.py: a TTLCache under any sequence of get, set and clock advances.
   cache is its _store and now its time.time(); fnIn is the last call and
   fnOut what it returned. *)

requestVars == <<env, pc, req, hit, geo, center, calls, results, outcome,
                 gathered, wrote, before>>

CacheKeys == {"k1", "k2"}

CacheValues == {[payload |-> 1], [payload |-> 2]}

InitCache ==
    /\ PlanIdle
    /\ fnIn = None
    /\ fnOut = None

CacheGet(key) ==
    LET got == TTLCache_get(cache, key, now)
    IN  /\ cache' = got.store
        /\ fnIn' = [op |-> "get", key |-> key]
        /\ fnOut' = got.value
        /\ UNCHANGED <<requestVars, now, tmVars>>

CacheSet(key, value) ==
    /\ cache' = TTLCache_set(cache, key, value, now)
    /\ fnIn' = [op |-> "set", key |-> key]
    /\ fnOut' = None
    /\ UNCHANGED <<requestVars, now, tmVars>>

CacheTick ==
    /\ now < MaxCacheTicks * CacheTickSeconds
    /\ now' = now + CacheTickSeconds
    /\ UNCHANGED <<requestVars, cache, fnIn, fnOut, tmVars>>

NextCache ==
    \/ \E key \in CacheKeys : CacheGet(key)
    \/ \E key \in CacheKeys, value \in CacheValues : CacheSet(key, value)
    \/ CacheTick

SpecCache == InitCache /\ [][NextCache]_vars

\* this step is a get of key (the clock stands still during a call)
GetStep(key) ==
    /\ fnIn' # None
    /\ fnIn'.op = "get"
    /\ fnIn'.key = key
    /\ now' = now

Expired(key) == cache[key].expires < now

\* C21: get(key) never returns the data of an entry whose expiry lies before
\* the current time; a lookup of such an entry removes it from the store and
\* returns nothing; no other operation removes an entry: lookups of other
\* keys, sets of other keys and the passing of time leave it as it is.
C21_LazyEviction ==
    [][\A key \in CacheKeys :
        /\ GetStep(key) =>
              IF key \in DOMAIN cache /\ ~Expired(key)
              THEN fnOut' = cache[key].data /\ cache' = cache
              ELSE /\ fnOut' = None
                   /\ key \notin DOMAIN cache'
                   /\ \A k \in DOMAIN cache \ {key} :
                          k \in DOMAIN cache' /\ cache'[k] = cache[k]
        /\ (key \in DOMAIN cache /\ key \notin DOMAIN cache') =>
              GetStep(key) /\ Expired(key)
        /\ (key \in DOMAIN cache /\ key \in DOMAIN cache' /\ cache'[key] # cache[key]) =>
              fnIn'.op = "set" /\ fnIn'.key = key /\ now' = now]_vars

\* a lookup of k1 found nothing and k1 is gone, while k2, expired as well and
\* not looked up since, is still in the store
C21_Witness ==
    /\ fnIn = [op |-> "get", key |-> "k1"]
    /\ fnOut = None
    /\ "k1" \notin DOMAIN cache
    /\ "k2" \in DOMAIN cache
    /\ cache["k2"].expires < now
    /\ cache["k2"].expires > ttl_seconds

====
